---- MODULE Spec2Model ----
(***************************************************************************)
(* Shape and channel bookkeeping of models/resnet.py: the construction of  *)
(* ShiftConv / BasicBlock / ResNet objects by the factory functions and    *)
(* the tensor shapes that flow through ResNet.forward.                     *)
(*                                                                         *)
(* A tensor is represented by its shape (n, c, h, w); a raised exception   *)
(* is the shape record whose err field is not the empty string.  Layers    *)
(* are records of their constructor arguments.                             *)
(*                                                                         *)
(* Floating point: self.reduction = float(reduction) ** 0.5 and            *)
(* int(c / self.reduction) are modelled by the exact integer               *)
(* floor(c / sqrt(reduction)); int((1 / float(reduction)) * planes) by     *)
(* planes \div reduction.  For the widths and reductions explored here     *)
(* the double-precision results coincide with the exact ones.              *)
(***************************************************************************)
EXTENDS Integers, Sequences, FiniteSets, TLC

VARIABLES pc,          \* position: idle, layer1..layer3, linear, built, block, done
          call,        \* the entry point that was called and its arguments
          block,       \* the block constructor handed to ResNet.__init__
          num_blocks,  \* ResNet.__init__ argument
          num_classes, \* ResNet.__init__ argument
          reduction,   \* ResNet.__init__ argument (self.reduction is its square root)
          in_planes,   \* self.in_planes
          conv1,       \* self.conv1
          bn1,         \* self.bn1
          stages,      \* <<self.layer1, self.layer2, self.layer3>> as far as assigned
          layers,      \* the local list `layers` of _make_layer
          linear,      \* self.linear
          x,           \* the input given to forward
          feat,        \* the value of `out` after each statement of forward
          out          \* the result of forward

vars == <<pc, call, block, num_blocks, num_classes, reduction, in_planes,
          conv1, bn1, stages, layers, linear, x, feat, out>>

-----------------------------------------------------------------------------
(* Bounds of the explored inputs.                                          *)

MaxReduction == 3
MaxReductionWide == 257
MaxBlocks == 2
MaxClasses == 2
MaxBatch == 2
MaxSide == 64
MaxExpansion == 2
MaxPlanes == 4

-----------------------------------------------------------------------------
(* Tensors and the library layers used by the module.                      *)

Tensor(n, c, h, w) == [n |-> n, c |-> c, h |-> h, w |-> w, err |-> ""]

Error(msg) == [n |-> 0, c |-> 0, h |-> 0, w |-> 0, err |-> msg]

IsTensor(t) == t.err = ""

NoLayer == [in_channels |-> 0, out_channels |-> 0, kernel_size |-> 0,
            stride |-> 0, padding |-> 0]

Conv2d(in_channels, out_channels, kernel_size, stride, padding) ==
    [in_channels |-> in_channels, out_channels |-> out_channels,
     kernel_size |-> kernel_size, stride |-> stride, padding |-> padding]

\* output extent of a convolution / pooling window along one axis
ConvOut(size, kernel_size, stride, padding) ==
    ((size + 2 * padding - kernel_size) \div stride) + 1

Conv2dForward(conv, t) ==
    IF ~IsTensor(t) THEN t
    ELSE IF t.c # conv.in_channels THEN Error("conv2d: channel mismatch")
    ELSE IF \/ t.h + 2 * conv.padding < conv.kernel_size
            \/ t.w + 2 * conv.padding < conv.kernel_size
         THEN Error("conv2d: kernel larger than input")
    ELSE Tensor(t.n, conv.out_channels,
                ConvOut(t.h, conv.kernel_size, conv.stride, conv.padding),
                ConvOut(t.w, conv.kernel_size, conv.stride, conv.padding))

BatchNorm2dForward(num_features, t) ==
    IF ~IsTensor(t) THEN t
    ELSE IF t.c # num_features THEN Error("batch_norm: channel mismatch")
    ELSE t

Relu(t) == t

\* GenericShift_cuda(kernel_size=3, dilate_factor=1): moves values between
\* positions of the same channel, the shape is kept
ShiftForward(t) == t

\* the in-place addition a += b: b has to broadcast to the shape of a
IAdd(a, b) ==
    IF ~IsTensor(a) THEN a
    ELSE IF ~IsTensor(b) THEN b
    ELSE IF /\ b.n \in {a.n, 1} /\ b.c \in {a.c, 1}
            /\ b.h \in {a.h, 1} /\ b.w \in {a.w, 1}
         THEN a
    ELSE Error("add: shape mismatch")

\* the pooling with ceil_mode=True
AvgPool2dCeil(t, kernel_size) ==
    IF ~IsTensor(t) THEN t
    ELSE LET ph == ((t.h - kernel_size + kernel_size - 1) \div kernel_size) + 1
             pw == ((t.w - kernel_size + kernel_size - 1) \div kernel_size) + 1
         IN IF ph < 1 \/ pw < 1
            THEN Error("avg_pool2d: output size is too small")
            ELSE Tensor(t.n, t.c, ph, pw)

AvgPool2d(t, kernel_size) ==
    IF ~IsTensor(t) THEN t
    ELSE LET ph == ConvOut(t.h, kernel_size, kernel_size, 0)
             pw == ConvOut(t.w, kernel_size, kernel_size, 0)
         IN IF ph < 1 \/ pw < 1
            THEN Error("avg_pool2d: output size is too small")
            ELSE Tensor(t.n, t.c, ph, pw)

\* out.view(out.size(0), -1): a matrix, kept as a tensor of extent 1 x 1
View(t) ==
    IF ~IsTensor(t) THEN t
    ELSE Tensor(t.n, t.c * t.h * t.w, 1, 1)

Linear(in_features, out_features) ==
    [in_features |-> in_features, out_features |-> out_features]

LinearForward(lin, t) ==
    IF ~IsTensor(t) THEN t
    ELSE IF t.c # lin.in_features THEN Error("linear: shape mismatch")
    ELSE Tensor(t.n, lin.out_features, 1, 1)

-----------------------------------------------------------------------------
(* The arithmetic of the channel counts.                                   *)

\* the division without the square root
IntDivNoSqrt(c, r) == c \div r

\* int(c / float(reduction) ** 0.5)
IntDivSqrt(c, r) ==
    CHOOSE k \in 0..c : k * k * r <= c * c /\ (k + 1) * (k + 1) * r > c * c

\* int((1 / float(reduction)) * planes)
BlockDim(planes, r) == planes \div r

\* int(out_planes * expansion), expansion = e[1] / e[2]
MidPlanes(out_planes, e) == (out_planes * e[1]) \div e[2]

-----------------------------------------------------------------------------
(* The two block types.                                                    *)

ShortcutNeeded(stride, in_planes_, out_width) ==
    stride # 1 \/ in_planes_ # out_width

\* the block whose shortcut convolution forgets the stride
ShiftConvInitNoStride(in_planes_, out_planes, stride, expansion) ==
    LET mid_planes == MidPlanes(out_planes, expansion)
    IN [type |-> "ShiftConv",
        conv1 |-> Conv2d(in_planes_, mid_planes, 1, 1, 0),
        bn1 |-> mid_planes,
        conv2 |-> Conv2d(mid_planes, out_planes, 1, stride, 0),
        bn2 |-> out_planes,
        shortcut |-> IF ShortcutNeeded(stride, in_planes_, out_planes)
                     THEN <<Conv2d(in_planes_, out_planes, 1, 1, 0)>>
                     ELSE <<>>]

ShiftConvInit(in_planes_, out_planes, stride, expansion) ==
    LET mid_planes == MidPlanes(out_planes, expansion)
    IN [type |-> "ShiftConv",
        conv1 |-> Conv2d(in_planes_, mid_planes, 1, 1, 0),
        bn1 |-> mid_planes,
        conv2 |-> Conv2d(mid_planes, out_planes, 1, stride, 0),
        bn2 |-> out_planes,
        shortcut |-> IF ShortcutNeeded(stride, in_planes_, out_planes)
                     THEN <<Conv2d(in_planes_, out_planes, 1, stride, 0)>>
                     ELSE <<>>]

BasicBlockInit(in_planes_, planes, stride, r) ==
    LET dim == BlockDim(planes, r)
    IN [type |-> "BasicBlock",
        conv1 |-> Conv2d(in_planes_, dim, 3, stride, 1),
        bn1 |-> dim,
        conv2 |-> Conv2d(dim, planes, 3, 1, 1),
        bn2 |-> planes,
        shortcut |-> IF ShortcutNeeded(stride, in_planes_, dim)
                     THEN <<Conv2d(in_planes_, planes, 1, stride, 0)>>
                     ELSE <<>>]

\* nn.Sequential() is the identity; otherwise the 1x1 convolution and its
\* batch normalisation
ShortcutForward(b, t) ==
    IF b.shortcut = <<>> THEN t
    ELSE BatchNorm2dForward(b.shortcut[1].out_channels,
                            Conv2dForward(b.shortcut[1], t))

\* the residual branch F(x) of a block, before the addition
MainForward(b, t) ==
    IF b.type = "ShiftConv"
    THEN LET x1 == Relu(BatchNorm2dForward(b.bn1, Conv2dForward(b.conv1, t)))
         IN Relu(BatchNorm2dForward(b.bn2,
                    Conv2dForward(b.conv2, ShiftForward(x1))))
    ELSE LET o1 == Relu(BatchNorm2dForward(b.bn1, Conv2dForward(b.conv1, t)))
         IN BatchNorm2dForward(b.bn2, Conv2dForward(b.conv2, o1))

\* ShiftConv.forward: x += shortcut; BasicBlock.forward: out += shortcut(x)
\* followed by relu
BlockForward(b, t) ==
    IF b.type = "ShiftConv"
    THEN IAdd(MainForward(b, t), ShortcutForward(b, t))
    ELSE Relu(IAdd(MainForward(b, t), ShortcutForward(b, t)))

RECURSIVE SequentialForward(_, _)
SequentialForward(seq, t) ==
    IF seq = <<>> THEN t
    ELSE SequentialForward(Tail(seq), BlockForward(Head(seq), t))

\* block(self.in_planes, planes, stride) for the constructor held in `block`
MakeBlock(blk, in_planes_, planes, stride) ==
    IF blk.type = "ShiftConv"
    THEN ShiftConvInit(in_planes_, planes, stride, blk.expansion)
    ELSE BasicBlockInit(in_planes_, planes, stride, blk.reduction)

-----------------------------------------------------------------------------
(* ResNet.__init__ and ResNet._make_layer.                                 *)

NoLinear == Linear(0, 0)

NoTensor == Error("none")

\* the stages built by __init__: layer1, layer2, layer3
NumStages == 3

\* the width handed to _make_layer for layer i, before the division
StageBase(i) == IF i = 1 THEN 16 ELSE IF i = 2 THEN 32 ELSE 64

\* every layer downsampling
StageStrideAll2(i) == 2

\* the stride handed to _make_layer for layer i
StageStride(i) == IF i = 1 THEN 1 ELSE 2

\* planes = int(planes) of _make_layer(block, c / self.reduction, ...)
StagePlanes(i, r) == IntDivSqrt(StageBase(i), r)

\* [1] * k, the empty list when k <= 0
Ones(k) == [j \in 1..(IF k > 0 THEN k ELSE 0) |-> 1]

\* one block too many: [stride] + [1]*num_blocks
StridesExtra(stride, n) == <<stride>> \o Ones(n)

\* strides = [stride] + [1]*(num_blocks-1)
Strides(stride, n) == <<stride>> \o Ones(n - 1)

\* the kernel size of F.avg_pool2d(out, 8)
PoolKernel == 8

\* the layer whose _make_layer call is running
Stage == Len(stages) + 1

ResNetInit(blk, nb, r, nc) ==
    /\ block' = blk
    /\ num_blocks' = nb
    /\ num_classes' = nc
    /\ reduction' = r
    /\ in_planes' = IntDivSqrt(16, r)
    /\ conv1' = Conv2d(3, IntDivSqrt(16, r), 3, 1, 1)
    /\ bn1' = IntDivSqrt(16, r)
    /\ stages' = <<>>
    /\ layers' = <<>>
    /\ pc' = "make_layer"
    /\ UNCHANGED <<linear, x, feat, out>>

\* the iteration that forgets self.in_planes = planes
MakeLayerAppendStale ==
    /\ pc = "make_layer"
    /\ LET strides == Strides(StageStride(Stage), num_blocks[Stage])
           planes == StagePlanes(Stage, reduction)
       IN /\ Len(layers) < Len(strides)
          /\ layers' = Append(layers,
                 MakeBlock(block, in_planes, planes, strides[Len(layers) + 1]))
          /\ in_planes' = in_planes
    /\ UNCHANGED <<pc, call, block, num_blocks, num_classes, reduction,
                   conv1, bn1, stages, linear, x, feat, out>>

\* one iteration of `for stride in strides`
MakeLayerAppend ==
    /\ pc = "make_layer"
    /\ LET strides == Strides(StageStride(Stage), num_blocks[Stage])
           planes == StagePlanes(Stage, reduction)
       IN /\ Len(layers) < Len(strides)
          /\ layers' = Append(layers,
                 MakeBlock(block, in_planes, planes, strides[Len(layers) + 1]))
          /\ in_planes' = planes
    /\ UNCHANGED <<pc, call, block, num_blocks, num_classes, reduction,
                   conv1, bn1, stages, linear, x, feat, out>>

\* return nn.Sequential(*layers) and the assignment to self.layer<i>
MakeLayerReturn ==
    /\ pc = "make_layer"
    /\ Len(layers) = Len(Strides(StageStride(Stage), num_blocks[Stage]))
    /\ stages' = Append(stages, layers)
    /\ layers' = <<>>
    /\ pc' = IF Stage = NumStages THEN "linear" ELSE "make_layer"
    /\ UNCHANGED <<call, block, num_blocks, num_classes, reduction, in_planes,
                   conv1, bn1, linear, x, feat, out>>

\* the classifier sized for the width of layer2
LinearInitNarrow ==
    /\ pc = "linear"
    /\ linear' = Linear(IntDivSqrt(32, reduction), num_classes)
    /\ pc' = "built"
    /\ UNCHANGED <<call, block, num_blocks, num_classes, reduction, in_planes,
                   conv1, bn1, stages, layers, x, feat, out>>

\* self.linear = nn.Linear(int(64 / self.reduction), num_classes)
LinearInit ==
    /\ pc = "linear"
    /\ linear' = Linear(IntDivSqrt(64, reduction), num_classes)
    /\ pc' = "built"
    /\ UNCHANGED <<call, block, num_blocks, num_classes, reduction, in_planes,
                   conv1, bn1, stages, layers, x, feat, out>>

\* ResNet.forward on a batch of n images of 3 channels, h x w pixels
Forward(n, h, w) ==
    /\ pc = "built"
    /\ \E t  \in {Tensor(n, 3, h, w)} :
       \E o0 \in {Relu(BatchNorm2dForward(bn1, Conv2dForward(conv1, t)))} :
       \E o1 \in {SequentialForward(stages[1], o0)} :
       \E o2 \in {SequentialForward(stages[2], o1)} :
       \E o3 \in {SequentialForward(stages[3], o2)} :
       \E o4 \in {AvgPool2d(o3, PoolKernel)} :
       \E o5 \in {View(o4)} :
       \E o6 \in {LinearForward(linear, o5)} :
          /\ x' = t
          /\ feat' = <<o0, o1, o2, o3, o4, o5>>
          /\ out' = o6
    /\ pc' = "done"
    /\ UNCHANGED <<call, block, num_blocks, num_classes, reduction, in_planes,
                   conv1, bn1, stages, layers, linear>>

-----------------------------------------------------------------------------
(* The factory functions.                                                  *)

BasicBlockCtor(r) == [type |-> "BasicBlock", reduction |-> r, expansion |-> <<1, 1>>]

ShiftConvCtor(e) == [type |-> "ShiftConv", reduction |-> 1, expansion |-> e]

\* the wrapper that does not hand the reduction on in 'net' mode
ResNetWrapperDropsReduction(nb, r, reduction_mode, nc) ==
    IF reduction_mode = "block"
    THEN ResNetInit(BasicBlockCtor(r), nb, 1, nc)
    ELSE ResNetInit(BasicBlockCtor(1), nb, 1, nc)

ResNetWrapper(nb, r, reduction_mode, nc) ==
    IF reduction_mode = "block"
    THEN ResNetInit(BasicBlockCtor(r), nb, 1, nc)
    ELSE ResNetInit(BasicBlockCtor(1), nb, r, nc)

BasicCall(name, nb, r, reduction_mode, nc) ==
    [factory |-> name, family |-> "ResNet", num_blocks |-> nb, reduction |-> r,
     reduction_mode |-> reduction_mode, expansion |-> <<1, 1>>,
     num_classes |-> nc]

ShiftCall(name, nb, e, nc) ==
    [factory |-> name, family |-> "ShiftResNet", num_blocks |-> nb,
     reduction |-> 1, reduction_mode |-> "net", expansion |-> e,
     num_classes |-> nc]

CallResNetWrapper(nb, r, reduction_mode, nc) ==
    /\ pc = "idle"
    /\ call' = BasicCall("ResNetWrapper", nb, r, reduction_mode, nc)
    /\ ResNetWrapper(nb, r, reduction_mode, nc)

\* ResNet(block, num_blocks, reduction, num_classes) called directly
CallResNet(blk, nb, r, nc) ==
    /\ pc = "idle"
    /\ call' = [factory |-> "ResNet",
                family |-> IF blk.type = "ShiftConv" THEN "ShiftResNet" ELSE "ResNet",
                num_blocks |-> nb, reduction |-> r, reduction_mode |-> "net",
                expansion |-> blk.expansion, num_classes |-> nc]
    /\ ResNetInit(blk, nb, r, nc)

ResNet20(r, reduction_mode, nc) ==
    /\ pc = "idle"
    /\ call' = BasicCall("ResNet20", <<3, 3, 3>>, r, reduction_mode, nc)
    /\ ResNetWrapper(<<3, 3, 3>>, r, reduction_mode, nc)

ResNet32(r, reduction_mode, nc) ==
    /\ pc = "idle"
    /\ call' = BasicCall("ResNet32", <<5, 5, 5>>, r, reduction_mode, nc)
    /\ ResNetWrapper(<<5, 5, 5>>, r, reduction_mode, nc)

ResNet44(r, reduction_mode, nc) ==
    /\ pc = "idle"
    /\ call' = BasicCall("ResNet44", <<7, 7, 7>>, r, reduction_mode, nc)
    /\ ResNetWrapper(<<7, 7, 7>>, r, reduction_mode, nc)

ResNet56(r, reduction_mode, nc) ==
    /\ pc = "idle"
    /\ call' = BasicCall("ResNet56", <<9, 9, 9>>, r, reduction_mode, nc)
    /\ ResNetWrapper(<<9, 9, 9>>, r, reduction_mode, nc)

ResNet110(r, reduction_mode, nc) ==
    /\ pc = "idle"
    /\ call' = BasicCall("ResNet110", <<18, 18, 18>>, r, reduction_mode, nc)
    /\ ResNetWrapper(<<18, 18, 18>>, r, reduction_mode, nc)

ShiftResNet20(e, nc) ==
    /\ pc = "idle"
    /\ call' = ShiftCall("ShiftResNet20", <<3, 3, 3>>, e, nc)
    /\ ResNetInit(ShiftConvCtor(e), <<3, 3, 3>>, 1, nc)

ShiftResNet32(e, nc) ==
    /\ pc = "idle"
    /\ call' = ShiftCall("ShiftResNet32", <<5, 5, 5>>, e, nc)
    /\ ResNetInit(ShiftConvCtor(e), <<5, 5, 5>>, 1, nc)

ShiftResNet44(e, nc) ==
    /\ pc = "idle"
    /\ call' = ShiftCall("ShiftResNet44", <<7, 7, 7>>, e, nc)
    /\ ResNetInit(ShiftConvCtor(e), <<7, 7, 7>>, 1, nc)

ShiftResNet56(e, nc) ==
    /\ pc = "idle"
    /\ call' = ShiftCall("ShiftResNet56", <<9, 9, 9>>, e, nc)
    /\ ResNetInit(ShiftConvCtor(e), <<9, 9, 9>>, 1, nc)

ShiftResNet110(e, nc) ==
    /\ pc = "idle"
    /\ call' = ShiftCall("ShiftResNet110", <<18, 18, 18>>, e, nc)
    /\ ResNetInit(ShiftConvCtor(e), <<18, 18, 18>>, 1, nc)

-----------------------------------------------------------------------------
(* A block constructed and called on its own.                              *)

BasicBlockDirect(in_planes_, planes, stride, r) ==
    /\ pc = "idle"
    /\ call' = [factory |-> "BasicBlock", family |-> "BasicBlock",
                in_planes |-> in_planes_, planes |-> planes,
                stride |-> stride, reduction |-> r]
    /\ layers' = <<BasicBlockInit(in_planes_, planes, stride, r)>>
    /\ pc' = "block"
    /\ UNCHANGED <<block, num_blocks, num_classes, reduction, in_planes,
                   conv1, bn1, stages, linear, x, feat, out>>

\* BasicBlock.forward on a batch of n maps of in_planes channels, h x w
BlockCall(n, h, w) ==
    /\ pc = "block"
    /\ x' = Tensor(n, call.in_planes, h, w)
    /\ feat' = <<MainForward(layers[1], x'), ShortcutForward(layers[1], x')>>
    /\ out' = BlockForward(layers[1], x')
    /\ pc' = "done"
    /\ UNCHANGED <<call, block, num_blocks, num_classes, reduction, in_planes,
                   conv1, bn1, stages, layers, linear>>

-----------------------------------------------------------------------------
(* Specifications.                                                         *)

Init ==
    /\ pc = "idle"
    /\ call = [factory |-> "none", family |-> "none"]
    /\ block = [type |-> "none", reduction |-> 1, expansion |-> <<1, 1>>]
    /\ num_blocks = <<0, 0, 0>>
    /\ num_classes = 0
    /\ reduction = 1
    /\ in_planes = 0
    /\ conv1 = NoLayer
    /\ bn1 = 0
    /\ stages = <<>>
    /\ layers = <<>>
    /\ linear = NoLinear
    /\ x = NoTensor
    /\ feat = <<>>
    /\ out = NoTensor

\* the ten factories, called on squares and on rectangles of width 32
Next ==
    \/ \E r \in 1..MaxReduction, m \in {"net", "block"}, nc \in 1..MaxClasses :
          \/ ResNet20(r, m, nc)
          \/ ResNet32(r, m, nc)
          \/ ResNet44(r, m, nc)
          \/ ResNet56(r, m, nc)
          \/ ResNet110(r, m, nc)
    \/ \E en \in 1..MaxExpansion, ed \in 1..2, nc \in 1..MaxClasses :
          \/ ShiftResNet20(<<en, ed>>, nc)
          \/ ShiftResNet32(<<en, ed>>, nc)
          \/ ShiftResNet44(<<en, ed>>, nc)
          \/ ShiftResNet56(<<en, ed>>, nc)
          \/ ShiftResNet110(<<en, ed>>, nc)
    \/ MakeLayerAppend
    \/ MakeLayerReturn
    \/ LinearInit
    \/ \E n \in 1..MaxBatch, h \in 1..MaxSide : \E w \in {h, 32} : Forward(n, h, w)

Spec == Init /\ [][Next]_vars

\* networks of any num_blocks, built by ResNetWrapper or by ResNet itself
NextNet ==
    \/ \E a \in 0..MaxBlocks, b \in 0..MaxBlocks, c \in 0..MaxBlocks,
          r \in 1..MaxReduction, m \in {"net", "block"} :
          CallResNetWrapper(<<a, b, c>>, r, m, 10)
    \/ \E a \in 0..MaxBlocks, b \in 0..MaxBlocks, c \in 0..MaxBlocks,
          en \in 1..MaxExpansion, ed \in 1..2 :
          CallResNet(ShiftConvCtor(<<en, ed>>), <<a, b, c>>, 1, 10)
    \/ MakeLayerAppend
    \/ MakeLayerReturn
    \/ LinearInit
    \/ \E h \in 1..MaxSide : Forward(1, h, 32)

SpecNet == Init /\ [][NextNet]_vars

\* the channel reduction over its whole range, on small networks
NextReduction ==
    \/ \E a \in 1..2, b \in 1..2, c \in 1..2,
          r \in 1..MaxReductionWide, m \in {"net", "block"} :
          CallResNetWrapper(<<a, b, c>>, r, m, 10)
    \/ MakeLayerAppend
    \/ MakeLayerReturn
    \/ LinearInit
    \/ Forward(1, 32, 32)

SpecReduction == Init /\ [][NextReduction]_vars

\* a BasicBlock on its own
NextBlock ==
    \/ \E i \in 1..MaxPlanes, p \in 1..MaxPlanes, s \in 1..2, r \in 1..MaxReduction :
          BasicBlockDirect(i, p, s, r)
    \/ \E n \in 1..MaxBatch, h \in 1..MaxSide : \E w \in {h, 32} : BlockCall(n, h, w)

SpecBlock == Init /\ [][NextBlock]_vars

-----------------------------------------------------------------------------
(* Vocabulary of the properties.                                           *)

FactoryDepth(name) ==
    CASE name \in {"ResNet20", "ShiftResNet20"} -> 20
      [] name \in {"ResNet32", "ShiftResNet32"} -> 32
      [] name \in {"ResNet44", "ShiftResNet44"} -> 44
      [] name \in {"ResNet56", "ShiftResNet56"} -> 56
      [] name \in {"ResNet110", "ShiftResNet110"} -> 110

IsNet == call.family \in {"ResNet", "ShiftResNet"}

FromFactory == IsNet /\ call.factory \notin {"ResNetWrapper", "ResNet"}

FromWrapper == IsNet /\ call.factory = "ResNetWrapper"

Built == IsNet /\ pc \in {"built", "done"}

RECURSIVE Concat(_)
Concat(ss) == IF ss = <<>> THEN <<>> ELSE Head(ss) \o Concat(Tail(ss))

\* the blocks constructed so far, in the order of the forward pass
Blocks == Concat(stages) \o layers

InPlanes(b) == b.conv1.in_channels

OutPlanes(b) == b.conv2.out_channels

\* the stride of the block's main branch
BlockStride(b) == IF b.type = "ShiftConv" THEN b.conv2.stride ELSE b.conv1.stride

StageWidth(i) == OutPlanes(stages[i][Len(stages[i])])

Ceil(a, b) == (a + b - 1) \div b

SameShape(a, b) ==
    /\ IsTensor(a) /\ IsTensor(b)
    /\ a.n = b.n /\ a.c = b.c /\ a.h = b.h /\ a.w = b.w

ConvPositive(c) == c.in_channels >= 1 /\ c.out_channels >= 1

BlockPositive(b) ==
    /\ ConvPositive(b.conv1) /\ ConvPositive(b.conv2)
    /\ b.bn1 >= 1 /\ b.bn2 >= 1
    /\ \A k \in 1..Len(b.shortcut) : ConvPositive(b.shortcut[k])

\* every layer of the network has at least one input and one output channel
AllWidthsPositive ==
    /\ ConvPositive(conv1) /\ bn1 >= 1
    /\ \A bs \in {Blocks} : \A k \in 1..Len(bs) : BlockPositive(bs[k])
    /\ linear.in_features >= 1 /\ linear.out_features >= 1

-----------------------------------------------------------------------------
(* C1: a factory-built network (reduction = 1, expansion = 1) maps a batch *)
(* of N images of 3 x 32 x 32 to a tensor of shape (N, num_classes): the   *)
(* map entering avg_pool2d is 8 x 8, the pooled map 1 x 1, and the         *)
(* flattened feature count is the in-features of the linear layer.         *)
C1_ForwardShape ==
    (/\ pc = "done" /\ FromFactory
     /\ call.reduction = 1 /\ call.expansion = <<1, 1>>
     /\ x.h = 32 /\ x.w = 32)
    => /\ IsTensor(feat[4]) /\ feat[4].h = 8 /\ feat[4].w = 8
       /\ IsTensor(feat[5]) /\ feat[5].h = 1 /\ feat[5].w = 1
       /\ IsTensor(feat[6]) /\ feat[6].c = linear.in_features
       /\ out = Tensor(x.n, call.num_classes, 1, 1)

C1_Witness ==
    /\ pc = "done" /\ call.factory = "ShiftResNet110"
    /\ call.expansion = <<1, 1>> /\ call.num_classes = 2
    /\ x = Tensor(2, 3, 32, 32)
    /\ out = Tensor(2, 2, 1, 1)

\* the weighted layers on the main path: the stem, conv1 and conv2 of
\* every block, the linear layer
Depth == 1 + 2 * Len(Blocks) + 1

(* C2: the network built by ResNetN / ShiftResNetN has depth N = 6n + 2,   *)
(* counting the stem, the two convolutions of every block of the three     *)
(* stages and the linear layer, for num_blocks = [n, n, n].                *)
C2_Depth ==
    (Built /\ FromFactory)
    => /\ Depth = FactoryDepth(call.factory)
       /\ Depth = 6 * num_blocks[1] + 2
       /\ num_blocks[2] = num_blocks[1] /\ num_blocks[3] = num_blocks[1]

C2_Witness ==
    /\ pc = "built" /\ call.factory = "ResNet110" /\ Len(Blocks) = 54

(* C3: a built network has exactly three stages; at reduction = 1 their    *)
(* output widths are 16, 32, 64; exactly the first block of stage 2 and    *)
(* of stage 3 has stride 2 and every other block stride 1; an input of     *)
(* height H leaves the stages with heights H, ceil(H/2), ceil(H/4).        *)
C3_Stages ==
    Built
    => /\ Len(stages) = 3
       /\ call.reduction = 1
            => StageWidth(1) = 16 /\ StageWidth(2) = 32 /\ StageWidth(3) = 64
       /\ \A i \in 1..3 : \A j \in 1..Len(stages[i]) :
             BlockStride(stages[i][j]) = IF i >= 2 /\ j = 1 THEN 2 ELSE 1
       /\ pc = "done"
            => /\ IsTensor(feat[2]) /\ feat[2].h = x.h
               /\ IsTensor(feat[3]) /\ feat[3].h = Ceil(x.h, 2)
               /\ IsTensor(feat[4]) /\ feat[4].h = Ceil(x.h, 4)

C3_Witness ==
    /\ pc = "done" /\ call.family = "ShiftResNet" /\ x.h = 33
    /\ call.num_blocks = <<2, 1, 2>>
    /\ feat[2].h = 33 /\ feat[3].h = 17 /\ feat[4].h = 9

(* C4 as stated: for every reduction r > 1 and both reduction modes, the   *)
(* output width of the stem and of every stage of ResNetWrapper(.., r, ..) *)
(* is strictly smaller than 16, 16, 32, 64.                                *)
C4_Original ==
    (Built /\ FromWrapper /\ call.reduction > 1)
    => /\ conv1.out_channels < 16
       /\ \A i \in 1..3 : StageWidth(i) < StageBase(i)

(* C4 amended: for r > 1, in 'net' mode the stem and every stage are       *)
(* strictly narrower than 16, 16, 32, 64; in 'block' mode the stem and the *)
(* stage outputs keep the widths 16, 16, 32, 64 and the inner width of     *)
(* every block is strictly smaller than the block's output width.          *)
C4_Amended ==
    (Built /\ FromWrapper /\ call.reduction > 1)
    => /\ call.reduction_mode = "net"
            => /\ conv1.out_channels < 16
               /\ \A i \in 1..3 : StageWidth(i) < StageBase(i)
       /\ call.reduction_mode = "block"
            => /\ conv1.out_channels = 16
               /\ \A i \in 1..3 : StageWidth(i) = StageBase(i)
               /\ \A bs \in {Blocks} : \A k \in 1..Len(bs) :
                     bs[k].conv1.out_channels < OutPlanes(bs[k])

C4_Witness ==
    /\ pc = "built" /\ FromWrapper
    /\ call.reduction = 2 /\ call.reduction_mode = "net"
    /\ conv1.out_channels = 11
    /\ StageWidth(1) = 11 /\ StageWidth(2) = 22 /\ StageWidth(3) = 45

(* C5: in every built network with positive widths, for every input size   *)
(* the shortcut branch of every block yields the channel count and the     *)
(* spatial size of the main branch, so the residual addition is            *)
(* well-formed.                                                            *)
C5_ResidualShapes ==
    /\ (pc = "built" /\ IsNet /\ AllWidthsPositive)
       => \A b \in {Blocks[k] : k \in 1..Len(Blocks)} :
          \A h \in 1..MaxSide : \A w \in {h, 32} :
             SameShape(MainForward(b, Tensor(1, InPlanes(b), h, w)),
                       ShortcutForward(b, Tensor(1, InPlanes(b), h, w)))
    /\ (pc = "done" /\ IsNet /\ AllWidthsPositive)
       => \A k \in 1..4 : IsTensor(feat[k])

C5_Witness ==
    /\ pc = "built" /\ call.family = "ShiftResNet" /\ call.expansion = <<1, 2>>
    /\ stages[2][1].shortcut # <<>> /\ stages[2][1].conv2.stride = 2
    /\ stages[2][2].shortcut = <<>>

(* C6: during construction self.in_planes is the output channel count of   *)
(* the block appended last; the first block reads the stem's               *)
(* int(16/sqrt(reduction)) channels, every later block the channels its    *)
(* predecessor writes (also across stages), and the linear layer's         *)
(* in-features are the last block's output channels.                       *)
C6_ChannelChain ==
    (IsNet /\ pc # "idle")
    => \A bs \in {Blocks} :
       /\ conv1.out_channels = IntDivSqrt(16, reduction)
       /\ bs = <<>> => in_planes = conv1.out_channels
       /\ bs # <<>>
            => /\ InPlanes(bs[1]) = conv1.out_channels
               /\ in_planes = OutPlanes(bs[Len(bs)])
       /\ \A k \in 2..Len(bs) : InPlanes(bs[k]) = OutPlanes(bs[k - 1])
       /\ \A k \in 1..Len(bs) : \A j \in 1..Len(bs[k].shortcut) :
             /\ bs[k].shortcut[j].in_channels = InPlanes(bs[k])
             /\ bs[k].shortcut[j].out_channels = OutPlanes(bs[k])
       /\ pc \in {"built", "done"}
            => linear.in_features = OutPlanes(bs[Len(bs)])

C6_Witness ==
    /\ pc = "built" /\ FromWrapper
    /\ call.reduction = 3 /\ call.reduction_mode = "net"
    /\ Len(Blocks) = 6
    /\ InPlanes(Blocks[3]) = 9 /\ OutPlanes(Blocks[3]) = 18
    /\ linear.in_features = 36

(* C7 as stated: a BasicBlock built from any positive in_planes, planes,   *)
(* stride, reduction has an identity shortcut only when stride = 1 and     *)
(* in_planes = planes, a projection to planes channels whenever            *)
(* in_planes # planes, and adds branches of matching shapes.               *)
C7_BlockShortcut ==
    (call.family = "BasicBlock" /\ pc \in {"block", "done"})
    => /\ layers[1].shortcut = <<>>
            => call.stride = 1 /\ call.in_planes = call.planes
       /\ call.in_planes # call.planes
            => /\ layers[1].shortcut # <<>>
               /\ layers[1].shortcut[1].out_channels = call.planes
       /\ (pc = "done" /\ BlockPositive(layers[1]))
            => SameShape(feat[1], feat[2]) /\ IsTensor(out)

(* C8 as stated: stage i of ResNetWrapper([a, b, c], ..) holds exactly     *)
(* num_blocks[i] blocks; a stage configured with 0 blocks holds none.      *)
C8_BlockCount ==
    (Built /\ FromWrapper)
    => \A i \in 1..3 : Len(stages[i]) = call.num_blocks[i]

(* C9 as stated: for every reduction >= 1 and both modes every layer of    *)
(* the network built by ResNetWrapper has at least one input and one       *)
(* output channel.                                                         *)
C9_Original == (Built /\ FromWrapper) => AllWidthsPositive

(* C9 amended: every layer has at least one input and one output channel   *)
(* exactly when reduction <= 256 in 'net' mode and reduction <= 16 in      *)
(* 'block' mode; beyond that a width is 0.                                 *)
C9_Amended ==
    (Built /\ FromWrapper)
    => /\ call.reduction_mode = "net"
            => (AllWidthsPositive <=> call.reduction <= 256)
       /\ call.reduction_mode = "block"
            => (AllWidthsPositive <=> call.reduction <= 16)

C9_Witness ==
    /\ pc = "built" /\ FromWrapper
    /\ call.reduction = 256 /\ call.reduction_mode = "net"
    /\ conv1.out_channels = 1 /\ AllWidthsPositive

(* C10: on a square input of side H a factory-built network (reduction 1)  *)
(* returns class scores of shape (N, num_classes) exactly when             *)
(* 29 <= H <= 60, the pooled map floor((ceil(H/4) - 8)/8) + 1 being 1 x 1; *)
(* otherwise the pass ends in a shape error and returns no tensor.         *)
C10_InputRange ==
    (pc = "done" /\ FromFactory /\ call.reduction = 1 /\ x.h = x.w)
    => /\ IsTensor(out) <=> (29 <= x.h /\ x.h <= 60)
       /\ IsTensor(out)
            => /\ out = Tensor(x.n, call.num_classes, 1, 1)
               /\ feat[5].h = 1 /\ feat[5].w = 1
               /\ feat[6].c = linear.in_features
       /\ IsTensor(feat[5])
            => feat[5].h = ((Ceil(x.h, 4) - 8) \div 8) + 1
       /\ x.h < 29 => out.err = "avg_pool2d: output size is too small"
       /\ x.h > 60 => out.err = "linear: shape mismatch"

C10_Witness ==
    /\ pc = "done" /\ FromFactory /\ call.reduction = 1
    /\ x.h = 61 /\ x.w = 61
    /\ feat[5].h = 2 /\ out.err = "linear: shape mismatch"

====
